---- MODULE Spec2Model ----
(***************************************************************************)
(* Model of chess.py: the board geometry tables, Square and Piece.         *)
(*                                                                         *)
(* Python integers are unbounded, so a mask is kept as its two's           *)
(* complement bit pattern: [neg |-> FALSE, bits |-> S] is the integer      *)
(* whose set bits are exactly S, and [neg |-> TRUE, bits |-> S] is the     *)
(* negative integer whose CLEAR bits are exactly S (-1 has S = {}).        *)
(* A str is the sequence of its characters, '' is << >>.                   *)
(* A list is a function on 0..n-1, as Python indexes it.                   *)
(***************************************************************************)
EXTENDS Integers, Sequences, FiniteSets

VARIABLES given, mask, san, piece, symbol, ret

vars == <<given, mask, san, piece, symbol, ret>>

(* ---------------- bounds of the explored inputs ---------------- *)
MaxBit == 65
MaxBits == 3
MaxLen == 3
MaxSymLen == 2
MaxKind == 7
MaxColor == 3

(* ---------------- integers as bit patterns ---------------- *)
Bits(S) == [neg |-> FALSE, bits |-> S]

Shl(m, n) == [neg |-> m.neg, bits |-> {b + n : b \in m.bits}]

And(a, b) ==
    IF ~a.neg /\ ~b.neg THEN Bits(a.bits \cap b.bits)
    ELSE IF a.neg /\ ~b.neg THEN Bits(b.bits \ a.bits)
    ELSE IF ~a.neg /\ b.neg THEN Bits(a.bits \ b.bits)
    ELSE [neg |-> TRUE, bits |-> a.bits \cup b.bits]

Truthy(m) == m.neg \/ m.bits # {}

SetMin(S) == CHOOSE x \in S : \A y \in S : x <= y

(* ---------------- list helpers ---------------- *)
In(list, x) == \E i \in DOMAIN list : list[i] = x

Index(list, x) ==
    IF In(list, x) THEN SetMin({i \in DOMAIN list : list[i] = x}) ELSE -1

(* ---------------- str helpers ---------------- *)
LowerCase == <<"a", "b", "c", "d", "e", "f", "g", "h", "i",
               "k", "n", "p", "q", "r", "x">>

UpperCase == <<"A", "B", "C", "D", "E", "F", "G", "H", "I",
               "K", "N", "P", "Q", "R", "X">>

IsLowerChar(c) == \E i \in DOMAIN LowerCase : LowerCase[i] = c

IsUpperChar(c) == \E i \in DOMAIN UpperCase : UpperCase[i] = c

LowerChar(c) ==
    IF IsUpperChar(c)
    THEN LowerCase[CHOOSE i \in DOMAIN UpperCase : UpperCase[i] = c]
    ELSE c

UpperChar(c) ==
    IF IsLowerChar(c)
    THEN UpperCase[CHOOSE i \in DOMAIN LowerCase : LowerCase[i] = c]
    ELSE c

lower(s) == [i \in 1..Len(s) |-> LowerChar(s[i])]

upper(s) == [i \in 1..Len(s) |-> UpperChar(s[i])]

isupper(s) ==
    /\ \E i \in 1..Len(s) : IsUpperChar(s[i])
    /\ \A i \in 1..Len(s) : ~IsLowerChar(s[i])

(* ---------------- module constants ---------------- *)
EMPTY == Bits({})

BOARD_MASK == Bits(0..63)

(* RANKS built with range(8) instead of range(0, 64, 8). *)
RANKS_step_one == [k \in 0..7 |-> Shl(Bits(0..7), k)]

RANKS == [k \in 0..7 |-> Shl(Bits(0..7), 8 * k)]

RANK_SAN == [k \in 0..7 |-> <<"1", "2", "3", "4", "5", "6", "7", "8">>[k + 1]]

FILES == [k \in 0..7 |-> Shl(Bits({8 * j : j \in 0..7}), k)]

FILE_SAN == [k \in 0..7 |-> <<"a", "b", "c", "d", "e", "f", "g", "h">>[k + 1]]

SQUARES == [i \in 0..63 |-> Shl(Bits({0}), i)]

(* SQUARE_SAN built with the two loops of the comprehension exchanged. *)
SQUARE_SAN_file_major ==
    [i \in 0..63 |-> <<FILE_SAN[i \div 8]>> \o <<RANK_SAN[i % 8]>>]

SQUARE_SAN == [i \in 0..63 |-> <<FILE_SAN[i % 8]>> \o <<RANK_SAN[i \div 8]>>]

PAWN == 1
KNIGHT == 2
BISHOP == 3
ROOK == 4
QUEEN == 5
KING == 6

PIECES == [k \in 0..5 |-> <<PAWN, KNIGHT, BISHOP, ROOK, QUEEN, KING>>[k + 1]]

PIECE_SYMBOLS == [k \in 0..5 |-> <<<<"p">>, <<"n">>, <<"b">>, <<"r">>, <<"q">>, <<"k">>>>[k + 1]]

WHITE == 1
BLACK == 2

COLORS == [k \in 0..1 |-> <<WHITE, BLACK>>[k + 1]]

(* ---------------- outcome of a call ---------------- *)
Return(v) == [raised |-> "", value |-> <<v>>]

Raise(e) == [raised |-> e, value |-> << >>]

NotCalled == [raised |-> "", value |-> << >>]

(* ---------------- Square ---------------- *)
(* is_legal as an overlap test against the whole board. *)
is_legal_overlap(m) == Truthy(And(m, BOARD_MASK))

is_legal(m) == In(SQUARES, m)

to_rank(m) ==
    LET hit == {k \in DOMAIN RANKS : Truthy(And(m, RANKS[k]))}
    IN  IF hit = {} THEN Return(EMPTY) ELSE Return(RANKS[SetMin(hit)])

to_file(m) ==
    LET hit == {k \in DOMAIN FILES : Truthy(And(m, FILES[k]))}
    IN  IF hit = {} THEN Return(EMPTY) ELSE Return(FILES[SetMin(hit)])

(* to_san without the is_legal guard. *)
to_san_unguarded(m) ==
    LET san_index == Index(SQUARES, m)
    IN  IF san_index = -1 THEN Raise("ValueError")
        ELSE IF san_index \notin DOMAIN SQUARE_SAN THEN Raise("IndexError")
        ELSE Return(SQUARE_SAN[san_index])

to_san(m) ==
    IF ~is_legal(m) THEN Return(<< >>)
    ELSE LET san_index == Index(SQUARES, m)
         IN  IF san_index = -1 THEN Raise("ValueError")
             ELSE IF san_index \notin DOMAIN SQUARE_SAN THEN Raise("IndexError")
             ELSE Return(SQUARE_SAN[san_index])

(* from_san returning the square after the one found. *)
from_san_next_square(s) ==
    IF ~In(SQUARE_SAN, s) THEN Raise("SanError")
    ELSE LET mask_index == Index(SQUARE_SAN, s)
         IN  Return(SQUARES[(mask_index + 1) % 64])

(* from_san looking only at the first two characters of the text. *)
from_san_prefix(s) ==
    LET head == IF Len(s) > 2 THEN SubSeq(s, 1, 2) ELSE s
    IN  IF ~In(SQUARE_SAN, head) THEN Raise("SanError")
        ELSE LET mask_index == Index(SQUARE_SAN, head)
             IN  Return(SQUARES[mask_index])

from_san(s) ==
    IF ~In(SQUARE_SAN, s) THEN Raise("SanError")
    ELSE LET mask_index == Index(SQUARE_SAN, s)
         IN  Return(SQUARES[mask_index])

(* ---------------- Piece ---------------- *)
Piece(p, c) == [piece |-> p, color |-> c]

(* to_symbol upper-casing the black pieces instead of the white ones. *)
to_symbol_black_upper(pc) ==
    IF ~In(PIECES, pc.piece) \/ ~In(COLORS, pc.color) THEN Return(<< >>)
    ELSE LET symbol_index == Index(PIECES, pc.piece)
             sym == PIECE_SYMBOLS[symbol_index]
         IN  IF pc.color = BLACK THEN Return(upper(sym)) ELSE Return(sym)

to_symbol(pc) ==
    IF ~In(PIECES, pc.piece) \/ ~In(COLORS, pc.color) THEN Return(<< >>)
    ELSE LET symbol_index == Index(PIECES, pc.piece)
             sym == PIECE_SYMBOLS[symbol_index]
         IN  IF pc.color = WHITE THEN Return(upper(sym)) ELSE Return(sym)

(* from_symbol taking the color from the lower-cased symbol. *)
from_symbol_color_of_lower(s) ==
    LET lower_symbol == lower(s)
    IN  IF ~In(PIECE_SYMBOLS, lower_symbol) THEN Raise("FenError")
        ELSE LET piece_index == Index(PIECE_SYMBOLS, lower_symbol)
             IN  Return(Piece(PIECES[piece_index],
                              IF isupper(lower_symbol) THEN WHITE ELSE BLACK))

from_symbol(s) ==
    LET lower_symbol == lower(s)
    IN  IF ~In(PIECE_SYMBOLS, lower_symbol) THEN Raise("FenError")
        ELSE LET piece_index == Index(PIECE_SYMBOLS, lower_symbol)
             IN  Return(Piece(PIECES[piece_index],
                              IF isupper(s) THEN WHITE ELSE BLACK))

(* ---------------- explored inputs ---------------- *)
(* Every integer with at most two bits set (or, negative, at most two bits
   clear) among positions 0..MaxBit, and every choice of at most MaxBits
   of the probe positions: same rank, same file, neither, on and off the
   board. *)
ProbeBits == {0, 1, 8, 9, 63, 64}

BitSets ==
    {{a, b} : a, b \in 0..MaxBit}
        \cup {S \in SUBSET ProbeBits : Cardinality(S) <= MaxBits}

Masks == {[neg |-> n, bits |-> S] : n \in BOOLEAN, S \in BitSets}

SanChars == {"a", "b", "c", "d", "e", "f", "g", "h", "i",
             "A", "E", "H",
             "1", "2", "3", "4", "5", "6", "7", "8", "9"}

SymChars == {"p", "n", "b", "r", "q", "k", "x",
             "P", "N", "B", "R", "Q", "K", "X", "1"}

Texts(chars, n) == UNION {[1..k -> chars] : k \in 0..n}

Ops == {"is_legal", "to_rank", "to_file", "to_san", "from_san",
        "to_symbol", "from_symbol"}

Done(op) == ret[op] # NotCalled

Init ==
    /\ given \in {"mask", "san", "piece", "symbol"}
    /\ mask \in IF given = "mask" THEN Masks ELSE {EMPTY}
    /\ san \in IF given = "san" THEN Texts(SanChars, MaxLen) ELSE {<< >>}
    /\ piece \in IF given = "piece"
                 THEN {Piece(p, c) : p \in 0..MaxKind, c \in 0..MaxColor}
                 ELSE {Piece(0, 0)}
    /\ symbol \in IF given = "symbol" THEN Texts(SymChars, MaxSymLen) ELSE {<< >>}
    /\ ret = [op \in Ops |-> NotCalled]

Call(op, outcome) ==
    /\ ~Done(op)
    /\ ret' = [ret EXCEPT ![op] = outcome]
    /\ UNCHANGED <<given, mask, san, piece, symbol>>

Square_is_legal == given = "mask" /\ Call("is_legal", Return(is_legal(mask)))

Square_to_rank == given = "mask" /\ Call("to_rank", to_rank(mask))

Square_to_file == given = "mask" /\ Call("to_file", to_file(mask))

Square_to_san == given = "mask" /\ Call("to_san", to_san(mask))

Square_from_san == given = "san" /\ Call("from_san", from_san(san))

Square_from_san_of_to_san ==
    /\ given = "mask"
    /\ Done("to_san")
    /\ ret["to_san"].raised = ""
    /\ Call("from_san", from_san(ret["to_san"].value[1]))

Piece_to_symbol == given = "piece" /\ Call("to_symbol", to_symbol(piece))

Piece_from_symbol == given = "symbol" /\ Call("from_symbol", from_symbol(symbol))

Piece_from_symbol_of_to_symbol ==
    /\ given = "piece"
    /\ Done("to_symbol")
    /\ ret["to_symbol"].raised = ""
    /\ Call("from_symbol", from_symbol(ret["to_symbol"].value[1]))

Next ==
    \/ Square_is_legal
    \/ Square_to_rank
    \/ Square_to_file
    \/ Square_to_san
    \/ Square_from_san
    \/ Square_from_san_of_to_san
    \/ Piece_to_symbol
    \/ Piece_from_symbol
    \/ Piece_from_symbol_of_to_symbol

Spec == Init /\ [][Next]_vars

(* ---------------- vocabulary of the properties ---------------- *)
FileLetters == {"a", "b", "c", "d", "e", "f", "g", "h"}

RankDigits == {"1", "2", "3", "4", "5", "6", "7", "8"}

PieceLetters == {"p", "n", "b", "r", "q", "k"}

LegalMask(m) == \E i \in 0..63 : m = Bits({i})

KindOfLetter(c) ==
    CASE c = "p" -> PAWN [] c = "n" -> KNIGHT [] c = "b" -> BISHOP
      [] c = "r" -> ROOK [] c = "q" -> QUEEN [] c = "k" -> KING

(* C1: for each of the 64 legal masks m, to_san() does not raise and
   from_san applied to its result does not raise and returns a Square
   whose mask is m. *)
C1_SquareRoundTrip ==
    (given = "mask" /\ LegalMask(mask)) =>
        /\ Done("to_san") => ret["to_san"].raised = ""
        /\ Done("from_san") => ret["from_san"] = Return(mask)

C1_Witness ==
    given = "mask" /\ mask = Bits({28}) /\ Done("to_san") /\ Done("from_san")

(* C2: for every file index f and rank index r, from_san of
   FILE_SAN[f] + RANK_SAN[r] returns the mask 1 << (8*r + f) ("e4" gives
   bit 28, "a1" bit 0, "h8" bit 63), and to_san of 1 << (8*r + f) returns
   FILE_SAN[f] + RANK_SAN[r]. *)
C2_FileRankPosition ==
    /\ \A f \in 0..7, r \in 0..7 :
         /\ (given = "san" /\ san = <<FILE_SAN[f], RANK_SAN[r]>> /\ Done("from_san"))
               => ret["from_san"] = Return(Bits({8 * r + f}))
         /\ (given = "mask" /\ mask = Bits({8 * r + f}) /\ Done("to_san"))
               => ret["to_san"] = Return(<<FILE_SAN[f], RANK_SAN[r]>>)
    /\ (given = "san" /\ san = <<"e", "4">> /\ Done("from_san"))
          => ret["from_san"] = Return(Bits({28}))
    /\ (given = "san" /\ san = <<"a", "1">> /\ Done("from_san"))
          => ret["from_san"] = Return(Bits({0}))
    /\ (given = "san" /\ san = <<"h", "8">> /\ Done("from_san"))
          => ret["from_san"] = Return(Bits({63}))
    /\ (given = "mask" /\ mask = Bits({28}) /\ Done("to_san"))
          => ret["to_san"] = Return(<<"e", "4">>)

C2_Witness ==
    given = "san" /\ san = <<"e", "4">> /\ Done("from_san")

(* C3: from_san raises SanError and returns no Square for every text whose
   length is not 2, or whose first character lowercased is not in a..h, or
   whose second character is not in 1..8. *)
C3_FromSanRejects ==
    (/\ given = "san"
     /\ Done("from_san")
     /\ \/ Len(san) # 2
        \/ LowerChar(san[1]) \notin FileLetters
        \/ san[2] \notin RankDigits)
    => ret["from_san"] = Raise("SanError")

C3_Witness ==
    given = "san" /\ san = <<"a", "1", "e">> /\ Done("from_san")

(* C4: from_san of a text whose file letter is upper-case ("E4") does not
   raise and returns the same mask as from_san of the lower-case text. *)
C4_FromSanCaseInsensitive ==
    (/\ given = "san"
     /\ Done("from_san")
     /\ Len(san) = 2
     /\ LowerChar(san[1]) \in FileLetters
     /\ san[1] # LowerChar(san[1])
     /\ san[2] \in RankDigits)
    => /\ ret["from_san"].raised = ""
       /\ ret["from_san"] = from_san(lower(san))

(* C5: for every illegal mask (0, or two or more bits set) to_rank() and
   to_file() return the empty mask and do not raise. *)
C5_IllegalRankFileEmpty ==
    (given = "mask" /\ ~LegalMask(mask)) =>
        /\ Done("to_rank") => ret["to_rank"] = Return(EMPTY)
        /\ Done("to_file") => ret["to_file"] = Return(EMPTY)

(* C6: is_legal() is true exactly when the mask has one bit set and that
   bit is at a position in 0..63; false for 0, for two or more bits, and
   for a single bit at position 64 or above. *)
C6_IsLegalExactMembership ==
    (given = "mask" /\ Done("is_legal")) =>
        ret["is_legal"] =
            Return(/\ ~mask.neg
                   /\ Cardinality(mask.bits) = 1
                   /\ mask.bits \subseteq 0..63)

C6_Witness ==
    given = "mask" /\ mask = Bits({0, 9}) /\ Done("is_legal")

(* C7: to_san() never raises; for an illegal mask it returns "", for the
   legal mask at index i of the square table it returns entry i of the
   SAN table, a file letter a..h followed by a rank digit 1..8. *)
C7_ToSanLenient ==
    (given = "mask" /\ Done("to_san")) =>
        /\ ret["to_san"].raised = ""
        /\ ~LegalMask(mask) => ret["to_san"] = Return(<< >>)
        /\ \A i \in 0..63 : mask = SQUARES[i] =>
              /\ ret["to_san"] = Return(SQUARE_SAN[i])
              /\ Len(ret["to_san"].value[1]) = 2
              /\ ret["to_san"].value[1][1] \in FileLetters
              /\ ret["to_san"].value[1][2] \in RankDigits

C7_Witness ==
    given = "mask" /\ mask = Bits({0, 1}) /\ Done("to_san")

(* C8: for each of the 12 (kind, color) pairs, from_symbol applied to
   Piece(kind, color).to_symbol() does not raise and returns a Piece with
   the same kind and color. *)
C8_PieceRoundTrip ==
    (/\ given = "piece"
     /\ piece.piece \in {PAWN, KNIGHT, BISHOP, ROOK, QUEEN, KING}
     /\ piece.color \in {WHITE, BLACK})
    => /\ Done("to_symbol") => ret["to_symbol"].raised = ""
       /\ Done("from_symbol") => ret["from_symbol"] = Return(piece)

C8_Witness ==
    /\ given = "piece"
    /\ piece = Piece(QUEEN, WHITE)
    /\ Done("to_symbol")
    /\ Done("from_symbol")

(* C9: for a one-character symbol c, from_symbol raises FenError exactly
   when c lowercased is not one of p n b r q k; otherwise it returns the
   Piece of that letter's kind, WHITE when c is upper-case and BLACK when c
   is lower-case. *)
C9_FromSymbolStrict ==
    (given = "symbol" /\ Len(symbol) = 1 /\ Done("from_symbol")) =>
        IF LowerChar(symbol[1]) \notin PieceLetters
        THEN ret["from_symbol"] = Raise("FenError")
        ELSE ret["from_symbol"] =
                Return(Piece(KindOfLetter(LowerChar(symbol[1])),
                             IF symbol[1] \in PieceLetters THEN BLACK ELSE WHITE))

C9_Witness ==
    given = "symbol" /\ symbol = <<"K">> /\ ret["from_symbol"] = Return(Piece(KING, WHITE))

(* C10: for the legal mask 1 << i, to_rank() is 0xFF << 8*(i div 8),
   to_file() is 0x0101010101010101 << (i mod 8), and the AND of the two
   within the 64 board bits is the mask itself. *)
C10_RankFileDecomposition ==
    \A i \in 0..63 : (given = "mask" /\ mask = Bits({i})) =>
        /\ Done("to_rank") =>
              ret["to_rank"] = Return(Bits({8 * (i \div 8) + j : j \in 0..7}))
        /\ Done("to_file") =>
              ret["to_file"] = Return(Bits({(i % 8) + 8 * j : j \in 0..7}))
        /\ (Done("to_rank") /\ Done("to_file")) =>
              And(And(ret["to_rank"].value[1], ret["to_file"].value[1]),
                  BOARD_MASK) = mask

C10_Witness ==
    /\ given = "mask"
    /\ mask = Bits({63})
    /\ Done("to_rank")
    /\ Done("to_file")

====
